---- MODULE Spec2Model ----
(***************************************************************************)
(* A model of menuize: the MenuNode / MenuShell tree, the tuple            *)
(* decomposition and its inverse from_tuple, and the MenuPointer           *)
(* navigator.                                                              *)
(*                                                                         *)
(* Python values are encoded as follows.  A str is a TLA+ string, a list   *)
(* of str a sequence of strings.  A MenuNode object is its index in the    *)
(* heap `nodes` (object identity = index), the absent object is NoNode.    *)
(* The heap holds the nodes of every shell.                                 *)
(* Python's None in a slot that otherwise holds a str is the reserved      *)
(* string None, which no identifier, token or mode of the model spells.    *)
(* Keyword arguments are a record whose domain is the set of keywords the  *)
(* caller supplied.                                                        *)
(***************************************************************************)
EXTENDS Integers, Sequences, FiniteSets, TLC

VARIABLES
    nodes,      \* heap of the MenuNode objects attached to a MenuShell
    root,       \* MenuShell.root: a heap index, or NoNode
    other,      \* the root of a second MenuShell, or NoNode
    pointer,    \* the MenuPointer object (node, shell, traceid, tracecmd)
    ret         \* the last call: its name, argument and outcome

vars == <<nodes, root, other, pointer, ret>>

(***************************************************************************)
(* Bounds and input sets                                                   *)
(***************************************************************************)
MaxNodes == 3       \* MenuNode objects one MenuShell may hold
MaxRecords == 3     \* length of a hand-made record sequence given to from_tuple

None == "None"
NoNode == 0
NoPointer == [absent |-> TRUE]
\* None where a list is expected; no list of the model equals it
NoneSelection == <<"NoneType">>
NoKw == [k \in {} |-> None]

RootId == "root"
NodeIds == {"a", "m"}
AllIds == {RootId} \cup NodeIds

\* tokens typed at the prompt
Inputs == {"a", "ab", "zz"}

\* keyword arguments of add_node used while navigating
PointerKw ==
    { NoKw,
      [choice |-> <<"a", "ab">>],
      [pattern |-> "a"],
      [mode |-> "bounds", selection |-> <<"a">>] }

\* keyword arguments of add_node used for trees that are exported
ShellKw ==
    { NoKw,
      [choice |-> <<"a", "ab">>],
      [choice |-> <<>>],
      [pattern |-> "a"],
      [mode |-> "bounds", selection |-> <<"a">>] }

(***************************************************************************)
(* MenuNode                                                                *)
(***************************************************************************)
Modes == {"id", "choice", "pattern"}

\* the count taken over every mode input that is passed, False included
OptCountsFalse(kw) ==
    Cardinality({"truefalse", "choice", "pattern", "bounds"} \cap DOMAIN kw)

\* number of mode inputs that are neither None nor False
Opt(kw) ==
    Cardinality({k \in {"truefalse", "choice", "pattern", "bounds"} :
                    /\ k \in DOMAIN kw
                    /\ (k = "truefalse" => kw.truefalse)})

\* truth value of a keyword: absent or None, "" and [] are false
Truthy(kw, k) ==
    /\ k \in DOMAIN kw
    /\ IF k = "selection"
       THEN kw.selection \notin {<<>>, NoneSelection}
       ELSE kw[k] # ""

\* MenuNode.__init__: the new object, or the exception raised
MenuNodeInit(id, kw) ==
    IF Opt(kw) > 1
    THEN [kind |-> "raise", exc |-> "ValueError"]
    ELSE LET base == [id |-> id, parent |-> None, children |-> <<>>]
         IN  [kind |-> "ok",
              node |->
                IF Truthy(kw, "selection") /\ Truthy(kw, "mode")
                THEN base @@ [mode |-> kw.mode, selection |-> kw.selection]
                ELSE IF "choice" \in DOMAIN kw
                THEN base @@ [mode |-> "choice", selection |-> kw.choice]
                ELSE IF "pattern" \in DOMAIN kw
                THEN base @@ [mode |-> "pattern", selection |-> <<kw.pattern>>]
                ELSE base @@ [mode |-> "id", selection |-> <<id>>]]

\* the constructor called on its own: the object made, or the exception
MenuNode(id, kw) ==
    LET made == MenuNodeInit(id, kw)
    IN  /\ ret' = [op |-> "MenuNode", id |-> id, kw |-> kw, kind |-> made.kind,
                   val |-> IF made.kind = "ok" THEN made.node ELSE made.exc]
        /\ UNCHANGED <<nodes, root, other, pointer>>

\* MenuNode.add_child on the heap h: child c (already in h) goes under p
AddChild(h, p, c) ==
    [h EXCEPT ![c].parent = h[p].id,
              ![p].children = Append(@, c)]

\* MenuNode._pack
Pack(h, n) ==
    [type |-> "tuple", id |-> h[n].id, parent |-> h[n].parent,
     mode |-> h[n].mode, selection |-> h[n].selection]

(***************************************************************************)
(* MenuShell                                                               *)
(***************************************************************************)
\* add_node without the test for an existing root: a second 'root' is
\* installed over the first
ShellAddNodeReplace(h, r, id, parent, kw) ==
    LET made == MenuNodeInit(id, kw)
        new  == Len(h) + 1
    IN  IF made.kind = "raise"
        THEN [nodes |-> h, root |-> r, kind |-> "raise", val |-> made.exc]
        ELSE IF id = RootId
        THEN [nodes |-> Append(h, made.node), root |-> new,
              kind |-> "ok", val |-> new]
        ELSE IF parent = NoNode
        THEN [nodes |-> h, root |-> r,
              kind |-> "raise", val |-> "AttributeError"]
        ELSE [nodes |-> AddChild(Append(h, made.node), parent, new),
              root |-> r, kind |-> "ok", val |-> new]

\* MenuShell.add_node on the shell (h, r): the shell after the call and the
\* value returned or the exception raised
ShellAddNode(h, r, id, parent, kw) ==
    LET made == MenuNodeInit(id, kw)
        new  == Len(h) + 1
    IN  IF made.kind = "raise"
        THEN [nodes |-> h, root |-> r, kind |-> "raise", val |-> made.exc]
        ELSE IF id = RootId
        THEN IF r = NoNode
             THEN [nodes |-> Append(h, made.node), root |-> new,
                   kind |-> "ok", val |-> new]
             ELSE [nodes |-> h, root |-> r,
                   kind |-> "raise", val |-> "ValueError"]
        ELSE IF parent = NoNode
        THEN [nodes |-> h, root |-> r,
              kind |-> "raise", val |-> "AttributeError"]
        ELSE [nodes |-> AddChild(Append(h, made.node), parent, new),
              root |-> r, kind |-> "ok", val |-> new]

add_node(id, parent, kw) ==
    LET r == ShellAddNode(nodes, root, id, parent, kw)
    IN  /\ Len(r.nodes) <= MaxNodes
        /\ nodes' = r.nodes
        /\ root' = r.root
        /\ ret' = [op |-> "add_node", shell |-> "menu", id |-> id,
                   kind |-> r.kind, val |-> r.val]
        /\ UNCHANGED <<other, pointer>>

\* add_node called on the second shell
add_node_other(id, parent, kw) ==
    LET r == ShellAddNode(nodes, other, id, parent, kw)
    IN  /\ Len(r.nodes) <= MaxNodes
        /\ nodes' = r.nodes
        /\ other' = r.root
        /\ ret' = [op |-> "add_node", shell |-> "other", id |-> id,
                   kind |-> r.kind, val |-> r.val]
        /\ UNCHANGED <<root, pointer>>

(***************************************************************************)
(* MenuPointer                                                             *)
(***************************************************************************)
\* MenuPointer.__init__ on the shell whose root is r
MenuPointerInit(r) ==
    [node |-> r, shell |-> "menu", traceid |-> <<>>, tracecmd |-> <<>>]

\* re.match for patterns made of literal characters: the pattern has to
\* match a prefix of the input
ReMatch(pat, s) ==
    /\ Len(s) >= Len(pat)
    /\ SubSeq(s, 1, Len(pat)) = pat

\* '|'.join
RECURSIVE Join(_)
Join(s) ==
    IF s = <<>> THEN ""
    ELSE IF Len(s) = 1 THEN s[1]
    ELSE s[1] \o "|" \o Join(Tail(s))

\* Selects with the pattern test applied to every mode
SelectsAnchored(c, input) ==
    \E k \in 1..Len(c.selection) : ReMatch(c.selection[k], input)

\* does the child accept the input (the two inner loops of select)
Selects(c, input) ==
    IF c.mode \in {"id", "choice"}
    THEN \E k \in 1..Len(c.selection) : c.selection[k] = input
    ELSE \E k \in 1..Len(c.selection) : ReMatch(c.selection[k], input)

\* SelectScan that goes on after a match, so that the last match wins
RECURSIVE SelectScanLast(_, _, _, _)
SelectScanLast(h, children, i, input) ==
    IF i > Len(children)
    THEN [kind |-> "none"]
    ELSE LET c == h[children[i]]
             rest == SelectScanLast(h, children, i + 1, input)
         IN  IF c.mode \notin Modes
             THEN [kind |-> "raise", exc |-> "NotImplementedError"]
             ELSE IF Selects(c, input) /\ rest.kind # "match"
             THEN [kind |-> "match", child |-> children[i]]
             ELSE rest

\* the loop of select passing over a child of an unhandled mode
RECURSIVE SelectScanSkip(_, _, _, _)
SelectScanSkip(h, children, i, input) ==
    IF i > Len(children)
    THEN [kind |-> "none"]
    ELSE LET c == h[children[i]]
         IN  IF c.mode \in Modes /\ Selects(c, input)
             THEN [kind |-> "match", child |-> children[i]]
             ELSE SelectScanSkip(h, children, i + 1, input)

\* the loop of select over the children, from position i on
RECURSIVE SelectScan(_, _, _, _)
SelectScan(h, children, i, input) ==
    IF i > Len(children)
    THEN [kind |-> "none"]
    ELSE LET c == h[children[i]]
         IN  IF c.mode \notin Modes
             THEN [kind |-> "raise", exc |-> "NotImplementedError"]
             ELSE IF Selects(c, input)
             THEN [kind |-> "match", child |-> children[i]]
             ELSE SelectScan(h, children, i + 1, input)

NewPointer ==
    /\ pointer = NoPointer
    /\ root # NoNode
    /\ pointer' = MenuPointerInit(root)
    /\ ret' = [op |-> "MenuPointer", kind |-> "ok", val |-> None]
    /\ UNCHANGED <<nodes, root, other>>

\* select that forgets to record the node it leaves
selectSkipTrace(input) ==
    /\ pointer # NoPointer
    /\ LET r == SelectScan(nodes, nodes[pointer.node].children, 1, input)
       IN  IF r.kind = "match"
           THEN /\ pointer' = [pointer EXCEPT
                                  !.tracecmd = Append(@, input),
                                  !.node = r.child]
                /\ ret' = [op |-> "select", arg |-> input, before |-> pointer,
                           kind |-> "ok",
                           val |-> Join(Append(pointer.tracecmd, input))]
           ELSE IF r.kind = "raise"
           THEN /\ pointer' = pointer
                /\ ret' = [op |-> "select", arg |-> input, before |-> pointer,
                           kind |-> "raise", val |-> r.exc]
           ELSE /\ pointer' = pointer
                /\ ret' = [op |-> "select", arg |-> input, before |-> pointer,
                           kind |-> "ok", val |-> None]
    /\ UNCHANGED <<nodes, root, other>>

\* select that records the input in both histories even when nothing matched
selectPushOnMiss(input) ==
    /\ pointer # NoPointer
    /\ LET r == SelectScan(nodes, nodes[pointer.node].children, 1, input)
       IN  IF r.kind = "raise"
           THEN /\ pointer' = pointer
                /\ ret' = [op |-> "select", arg |-> input, before |-> pointer,
                           kind |-> "raise", val |-> r.exc]
           ELSE /\ pointer' = [pointer EXCEPT
                                  !.traceid = Append(@, pointer.node),
                                  !.tracecmd = Append(@, input),
                                  !.node = IF r.kind = "match"
                                           THEN r.child ELSE @]
                /\ ret' = [op |-> "select", arg |-> input, before |-> pointer,
                           kind |-> "ok",
                           val |-> IF r.kind = "match"
                                   THEN Join(Append(pointer.tracecmd, input))
                                   ELSE None]
    /\ UNCHANGED <<nodes, root, other>>

select(input) ==
    /\ pointer # NoPointer
    /\ LET r == SelectScan(nodes, nodes[pointer.node].children, 1, input)
       IN  IF r.kind = "match"
           THEN /\ pointer' = [pointer EXCEPT
                                  !.traceid = Append(@, pointer.node),
                                  !.tracecmd = Append(@, input),
                                  !.node = r.child]
                /\ ret' = [op |-> "select", arg |-> input, before |-> pointer,
                           kind |-> "ok",
                           val |-> Join(Append(pointer.tracecmd, input))]
           ELSE IF r.kind = "raise"
           THEN /\ pointer' = pointer
                /\ ret' = [op |-> "select", arg |-> input, before |-> pointer,
                           kind |-> "raise", val |-> r.exc]
           ELSE /\ pointer' = pointer
                /\ ret' = [op |-> "select", arg |-> input, before |-> pointer,
                           kind |-> "ok", val |-> None]
    /\ UNCHANGED <<nodes, root, other>>

\* was the last call a select that advanced the pointer
Advanced(r) == r.op = "select" /\ r.kind = "ok" /\ r.val # None

\* the call a back follows: an advancing select, another back, or other
After(r) ==
    IF Advanced(r) THEN "select"
    ELSE IF r.op = "back" THEN "back"
    ELSE "other"

\* back that forgets to pop the command history
backKeepCmd ==
    /\ pointer # NoPointer
    /\ IF Len(pointer.traceid) > 0
       THEN pointer' = [pointer EXCEPT
                           !.node = pointer.traceid[Len(pointer.traceid)],
                           !.traceid = SubSeq(@, 1, Len(@) - 1)]
       ELSE pointer' = pointer
    /\ ret' = [op |-> "back", popped |-> Len(pointer.traceid) > 0,
               after |-> After(ret),
               kind |-> "ok", val |-> None]
    /\ UNCHANGED <<nodes, root, other>>

\* back without the test of the history length: pop from an empty list
backUnguarded ==
    /\ pointer # NoPointer
    /\ IF Len(pointer.traceid) > 0
       THEN /\ pointer' = [pointer EXCEPT
                              !.node = pointer.traceid[Len(pointer.traceid)],
                              !.traceid = SubSeq(@, 1, Len(@) - 1),
                              !.tracecmd = SubSeq(@, 1, Len(@) - 1)]
            /\ ret' = [op |-> "back", popped |-> TRUE,
                       after |-> After(ret),
                       kind |-> "ok", val |-> None]
       ELSE /\ pointer' = pointer
            /\ ret' = [op |-> "back", popped |-> FALSE,
                       after |-> After(ret),
                       kind |-> "raise", val |-> "IndexError"]
    /\ UNCHANGED <<nodes, root, other>>

\* the pointer after a back call that pops both histories and stays where
\* it is
BackPointerKeepNode(p) ==
    IF Len(p.traceid) > 0
    THEN [p EXCEPT !.traceid = SubSeq(@, 1, Len(@) - 1),
                   !.tracecmd = SubSeq(@, 1, Len(@) - 1)]
    ELSE p

\* the pointer object after back
BackPointer(p) ==
    IF Len(p.traceid) > 0
    THEN [p EXCEPT !.node = p.traceid[Len(p.traceid)],
                   !.traceid = SubSeq(@, 1, Len(@) - 1),
                   !.tracecmd = SubSeq(@, 1, Len(@) - 1)]
    ELSE p

back ==
    /\ pointer # NoPointer
    /\ pointer' = BackPointer(pointer)
    /\ ret' = [op |-> "back", popped |-> Len(pointer.traceid) > 0,
               after |-> After(ret),
               kind |-> "ok", val |-> None]
    /\ UNCHANGED <<nodes, root, other>>

\* the loop of roll with a CHOICE entry that is replaced, not extended
RECURSIVE RollScanOverwrite(_, _, _, _)
RollScanOverwrite(h, children, i, dlist) ==
    IF i > Len(children)
    THEN [kind |-> "ok", val |-> dlist]
    ELSE LET c == h[children[i]]
             d == IF c.mode \in DOMAIN dlist
                  THEN dlist
                  ELSE dlist @@ (c.mode :> <<>>)
         IN  IF c.mode = "id"
             THEN RollScanOverwrite(h, children, i + 1,
                           [d EXCEPT ![c.mode] = Append(@, c.selection[1])])
             ELSE IF c.mode = "choice"
             THEN RollScanOverwrite(h, children, i + 1,
                           [d EXCEPT ![c.mode] = c.selection])
             ELSE [kind |-> "raise", val |-> "NotImplementedError"]

\* the loop of roll over the children, from position i on, with the
\* dictionary dlist filled so far
RECURSIVE RollScan(_, _, _, _)
RollScan(h, children, i, dlist) ==
    IF i > Len(children)
    THEN [kind |-> "ok", val |-> dlist]
    ELSE LET c == h[children[i]]
             d == IF c.mode \in DOMAIN dlist
                  THEN dlist
                  ELSE dlist @@ (c.mode :> <<>>)
         IN  IF c.mode = "id"
             THEN RollScan(h, children, i + 1,
                           [d EXCEPT ![c.mode] = Append(@, c.selection[1])])
             ELSE IF c.mode = "choice"
             THEN RollScan(h, children, i + 1,
                           [d EXCEPT ![c.mode] = @ \o c.selection])
             ELSE [kind |-> "raise", val |-> "NotImplementedError"]

roll ==
    /\ pointer # NoPointer
    /\ LET r == RollScan(nodes, nodes[pointer.node].children, 1, NoKw)
       IN  ret' = [op |-> "roll", kind |-> r.kind, val |-> r.val]
    /\ UNCHANGED <<nodes, root, other, pointer>>

\* reset that only moves current back to the root
resetKeepTrace ==
    /\ pointer # NoPointer
    /\ pointer' = [pointer EXCEPT !.node = root]
    /\ ret' = [op |-> "reset", before |-> pointer, kind |-> "ok", val |-> None]
    /\ UNCHANGED <<nodes, root, other>>

reset ==
    /\ pointer # NoPointer
    /\ pointer' = MenuPointerInit(root)
    /\ ret' = [op |-> "reset", before |-> pointer, kind |-> "ok", val |-> None]
    /\ UNCHANGED <<nodes, root, other>>

(***************************************************************************)
(* The navigation specification: a tree is built, and grows, while one     *)
(* pointer walks it.  The pointer is constructed once the shell has its    *)
(* root ("Menu must be compiled before pointer can function").             *)
(***************************************************************************)
Init ==
    /\ nodes = <<>>
    /\ root = NoNode
    /\ other = NoNode
    /\ pointer = NoPointer
    /\ ret = [op |-> "MenuShell", kind |-> "ok", val |-> None]

\* select and back never look at the root's own mode: the root is created
\* without keyword arguments here
AddNode ==
    \E id \in AllIds, parent \in 0..Len(nodes) :
        \E kw \in IF id = RootId THEN {NoKw} ELSE PointerKw :
            add_node(id, parent, kw)

Select == \E input \in Inputs : select(input)

Back == back

Reset == reset

Roll == roll

Next == AddNode \/ NewPointer \/ Select \/ Back \/ Reset \/ Roll

Spec == Init /\ [][Next]_vars

(***************************************************************************)
(* Decomposition into a tuple of records                                   *)
(***************************************************************************)
\* _rec_decompose_node, with the loop over the children from position i on.
\* A call on a node without children yields the MenuNode object itself.
RECURSIVE RecDecomposeNode(_, _)
RECURSIVE RecDecomposeChildren(_, _, _)
RecDecomposeNode(h, n) ==
    IF h[n].children # <<>>
    THEN RecDecomposeChildren(h, h[n].children, 1)
    ELSE <<[type |-> "MenuNode", ref |-> n]>>

RecDecomposeChildren(h, children, i) ==
    IF i > Len(children)
    THEN <<>>
    ELSE LET child == children[i]
         IN  <<Pack(h, child)>>
             \o (IF h[child].children # <<>>
                 THEN RecDecomposeNode(h, child)
                 ELSE <<>>)
             \o RecDecomposeChildren(h, children, i + 1)

\* tuple(decompose_menu(menu)): the generator run to its end.  On a shell
\* without root the generator calls logging.WARNING, an int.
DecomposeMenu(h, r) ==
    IF r # NoNode
    THEN [kind |-> "ok", val |-> <<Pack(h, r)>> \o RecDecomposeNode(h, r)]
    ELSE [kind |-> "raise", val |-> "TypeError"]

(***************************************************************************)
(* from_tuple                                                              *)
(***************************************************************************)
\* the names of from_tuple's own local variables
LocalNames ==
    {"obj", "validate", "val_list", "n", "id", "parent", "mode",
     "selection", "m"}

\* truth value of a parent field: None and "" are false
ParentTruthy(parent) == parent # None /\ parent # ""

\* the validating loop without the test of the mode
RECURSIVE ValidateNoMode(_, _, _)
ValidateNoMode(obj, i, val_list) ==
    IF i > Len(obj)
    THEN "ok"
    ELSE LET e == obj[i]
         IN  IF e.type # "tuple"
             THEN "TypeError"
             ELSE IF i = 1 /\ ParentTruthy(e.parent)
             THEN "IntegrityError"
             ELSE IF i > 1 /\ e.id \notin val_list
             THEN "IntegrityError"
             ELSE IF e.id = None
             THEN "TypeError"
             ELSE IF e.selection = NoneSelection
             THEN "TypeError"
             ELSE ValidateNoMode(obj, i + 1, val_list \cup {e.id})

\* the validating loop of from_tuple from position i on: "ok", or the
\* exception raised
RECURSIVE Validate(_, _, _)
Validate(obj, i, val_list) ==
    IF i > Len(obj)
    THEN "ok"
    ELSE LET e == obj[i]
         IN  IF e.type # "tuple"
             THEN "TypeError"
             ELSE IF i = 1 /\ ParentTruthy(e.parent)
             THEN "IntegrityError"
             ELSE IF i > 1 /\ e.id \notin val_list
             THEN "IntegrityError"
             ELSE IF e.id = None
             THEN "TypeError"
             ELSE IF e.mode \notin Modes
             THEN "CompositeError"
             ELSE IF e.selection = NoneSelection
             THEN "TypeError"
             ELSE Validate(obj, i + 1, val_list \cup {e.id})

\* locals()[parent]: d holds the keys from_tuple has written into the
\* dictionary locals() returned.  Every call of locals() refreshes the
\* entries named like a local variable; an interpreter with PEP 667
\* (pep667) hands out a fresh snapshot at each call, and the written keys
\* are lost.
LocalsLookup(d, parent, validate, pep667) ==
    IF parent \in LocalNames
    THEN IF parent = "val_list" /\ ~validate
         THEN [kind |-> "raise", val |-> "KeyError"]
         ELSE [kind |-> "raise", val |-> "TypeError"]
    ELSE IF pep667 \/ parent \notin DOMAIN d
    THEN [kind |-> "raise", val |-> "KeyError"]
    ELSE [kind |-> "ok", val |-> d[parent]]

\* the MenuNode objects constructed once add_node(id, ..., kw) has raised on
\* the heap h: add_node constructs its node before it looks at the tree
Constructed(h, id, kw) ==
    Len(h) + (IF MenuNodeInit(id, kw).kind = "ok" THEN 1 ELSE 0)

\* the building loop of from_tuple from position i on, with the shell
\* (h, r) built so far; a raise tells how many MenuNode objects had been
\* constructed (made)
RECURSIVE Build(_, _, _, _, _, _, _)
Build(obj, i, h, r, d, validate, pep667) ==
    IF i > Len(obj)
    THEN [kind |-> "ok", nodes |-> h, root |-> r]
    ELSE LET e == obj[i]
         IN  IF e.type # "tuple"
             THEN [kind |-> "raise", val |-> "TypeError", made |-> Len(h)]
             ELSE
             LET parent == IF i = 1
                           THEN [kind |-> "ok", val |-> NoNode]
                           ELSE LocalsLookup(d, e.parent, validate, pep667)
                 kw     == IF i = 1
                           THEN NoKw
                           ELSE [mode |-> e.mode, selection |-> e.selection]
             IN  IF parent.kind = "raise"
                 THEN [kind |-> "raise", val |-> parent.val, made |-> Len(h)]
                 ELSE
                 LET a == ShellAddNode(h, r, e.id, parent.val, kw)
                 IN  IF a.kind = "raise"
                     THEN [kind |-> "raise", val |-> a.val,
                           made |-> Constructed(h, e.id, kw)]
                     ELSE Build(obj, i + 1, a.nodes, a.root,
                                [k \in DOMAIN d \cup {e.id} |->
                                    IF k = e.id THEN a.val ELSE d[k]],
                                validate, pep667)

\* from_tuple(obj, validate) on an interpreter with or without PEP 667
FromTuple(obj, validate, pep667) ==
    LET v == IF validate THEN Validate(obj, 1, {}) ELSE "ok"
    IN  IF v # "ok"
        THEN [kind |-> "raise", val |-> v, made |-> 0]
        ELSE Build(obj, 1, <<>>, NoNode, NoKw, validate, pep667)

(***************************************************************************)
(* The export specification: a tree is built with every kind of node,     *)
(* decomposed as to_pkl does, and the tuple is given back to from_tuple    *)
(* (validate = False is what from_pkl passes).                             *)
(***************************************************************************)
decompose_menu ==
    LET r == DecomposeMenu(nodes, root)
    IN  /\ ret' = [op |-> "decompose_menu", kind |-> r.kind, val |-> r.val]
        /\ UNCHANGED <<nodes, root, other, pointer>>

from_tuple(obj, src, validate, pep667) ==
    /\ ret' = [op |-> "from_tuple", obj |-> obj, src |-> src,
               validate |-> validate, pep667 |-> pep667,
               out |-> FromTuple(obj, validate, pep667)]
    /\ UNCHANGED <<nodes, root, other, pointer>>

AddNodeAny ==
    \E id \in AllIds, parent \in 0..Len(nodes), kw \in ShellKw :
        add_node(id, parent, kw)

ToTuple == decompose_menu

Rebuild ==
    /\ ret.op = "decompose_menu"
    /\ ret.kind = "ok"
    /\ \E validate \in BOOLEAN, pep667 \in BOOLEAN :
          from_tuple(ret.val, "decompose_menu", validate, pep667)

NextShell == AddNodeAny \/ ToTuple \/ Rebuild

SpecShell == Init /\ [][NextShell]_vars

(***************************************************************************)
(* The two-shell specification: two MenuShell objects in one interpreter.  *)
(* Each add_node call may be handed any MenuNode object that exists, also  *)
(* one that the other shell created.                                       *)
(***************************************************************************)
TwoKw == {NoKw, [choice |-> <<"a", "ab">>]}

AddNodeMenu ==
    \E id \in AllIds, parent \in 0..Len(nodes), kw \in TwoKw :
        add_node(id, parent, kw)

AddNodeOther ==
    \E id \in AllIds, parent \in 0..Len(nodes), kw \in TwoKw :
        add_node_other(id, parent, kw)

NextTwo == AddNodeMenu \/ AddNodeOther

SpecTwo == Init /\ [][NextTwo]_vars

(***************************************************************************)
(* The constructor specification: MenuNode called with every combination   *)
(* of its mode inputs and of the pass-through keywords.                    *)
(***************************************************************************)
TruefalseKw == {NoKw, [truefalse |-> FALSE], [truefalse |-> TRUE]}
ChoiceKw == {NoKw, [choice |-> <<>>], [choice |-> <<"a", "ab">>]}
PatternKw == {NoKw, [pattern |-> "a"]}
BoundsKw == {NoKw, [bounds |-> <<1, 2>>]}
PassKw ==
    { NoKw,
      [mode |-> "choice"],
      [mode |-> "bounds", selection |-> <<"a">>],
      [mode |-> "choice", selection |-> <<>>],
      [mode |-> "id", selection |-> <<"ab">>] }

CtorKw ==
    { tf @@ ch @@ pa @@ bo @@ pt :
        tf \in TruefalseKw, ch \in ChoiceKw, pa \in PatternKw,
        bo \in BoundsKw, pt \in PassKw }

NextNode == \E id \in AllIds, kw \in CtorKw : MenuNode(id, kw)

SpecNode == Init /\ [][NextNode]_vars

(***************************************************************************)
(* The build specification: a tree is built with every kind of mode        *)
(* argument of add_node, the pass-through of an ID node included, and is   *)
(* exported and rebuilt as in the export specification.                    *)
(***************************************************************************)
BuildKw == ShellKw \cup {[mode |-> "id", selection |-> <<"ab">>]}

AddNodeBuild ==
    \E id \in AllIds, parent \in 0..Len(nodes), kw \in BuildKw :
        add_node(id, parent, kw)

NextBuild == AddNodeBuild \/ ToTuple \/ Rebuild

SpecBuild == Init /\ [][NextBuild]_vars

(***************************************************************************)
(* The import specification: from_tuple on record sequences written by     *)
(* hand.                                                                   *)
(***************************************************************************)
TupleIds == {RootId, "a", None}
TupleParents == {None, RootId, "a"}
TupleShapes ==
    {<<"id", <<"a">> >>, <<"bounds", <<"a">> >>, <<"id", NoneSelection>>}

Records ==
    { [type |-> "tuple", id |-> id, parent |-> parent,
       mode |-> shape[1], selection |-> shape[2]] :
        id \in TupleIds, parent \in TupleParents, shape \in TupleShapes }

RecordSeqs == UNION { [1..n -> Records] : n \in 0..MaxRecords }

\* one call per run: from_tuple neither reads nor writes anything that
\* outlives the call
NextTuple ==
    /\ ret.op = "MenuShell"
    /\ \E obj \in RecordSeqs, validate \in BOOLEAN, pep667 \in BOOLEAN :
          from_tuple(obj, "caller", validate, pep667)

SpecTuple == Init /\ [][NextTuple]_vars

(***************************************************************************)
(* The comparison specification: one hand-made record sequence is given to *)
(* from_tuple twice, with validate = True and with validate = False.  A    *)
(* parent field may hold the name of a local variable of from_tuple.       *)
(***************************************************************************)
from_tuple_twice(obj, pep667) ==
    /\ ret' = [op |-> "from_tuple_twice", obj |-> obj, pep667 |-> pep667,
               validated |-> FromTuple(obj, TRUE, pep667),
               plain |-> FromTuple(obj, FALSE, pep667)]
    /\ UNCHANGED <<nodes, root, other, pointer>>

TwiceIds == {RootId, "a"}
TwiceParents == {None, RootId, "val_list"}
TwiceShapes == {<<"id", <<"a">> >>, <<"bounds", <<"a">> >>}

TwiceRecords ==
    { [type |-> "tuple", id |-> id, parent |-> parent,
       mode |-> shape[1], selection |-> shape[2]] :
        id \in TwiceIds, parent \in TwiceParents, shape \in TwiceShapes }

TwiceSeqs == UNION { [1..n -> TwiceRecords] : n \in 0..MaxRecords }

NextTwice ==
    /\ ret.op = "MenuShell"
    /\ \E obj \in TwiceSeqs, pep667 \in BOOLEAN : from_tuple_twice(obj, pep667)

SpecTwice == Init /\ [][NextTwice]_vars

(***************************************************************************)
(* Notions the properties are stated with                                  *)
(***************************************************************************)
Range(s) == {s[k] : k \in 1..Len(s)}

\* a tree as a value: a node with everything below it, children in order
RECURSIVE Canon(_, _)
Canon(h, n) ==
    [id |-> h[n].id, parent |-> h[n].parent, mode |-> h[n].mode,
     selection |-> h[n].selection,
     children |-> [k \in 1..Len(h[n].children) |-> Canon(h, h[n].children[k])]]

\* two shells are structurally equal
SameTree(h1, r1, h2, r2) ==
    /\ (r1 = NoNode) = (r2 = NoNode)
    /\ r1 # NoNode => Canon(h1, r1) = Canon(h2, r2)

\* the pre-order walk: a node's record, then the walks of its children in
\* insertion order
RECURSIVE Preorder(_, _)
RECURSIVE PreorderAll(_, _, _)
Preorder(h, n) == <<Pack(h, n)>> \o PreorderAll(h, h[n].children, 1)

PreorderAll(h, children, i) ==
    IF i > Len(children)
    THEN <<>>
    ELSE Preorder(h, children[i]) \o PreorderAll(h, children, i + 1)

\* the last call rebuilt the tuple decompose_menu made of the present tree
Rebuilt(validate) ==
    /\ ret.op = "from_tuple"
    /\ ret.src = "decompose_menu"
    /\ ret.validate = validate
    /\ root # NoNode

(***************************************************************************)
(* C1: for every tree with a root, from_tuple(tuple(decompose_menu(t)),    *)
(* validate=True) raises nothing and returns a tree structurally equal to  *)
(* t.                                                                      *)
(***************************************************************************)
C1_RoundTripValidated ==
    Rebuilt(TRUE) =>
        /\ ret.out.kind = "ok"
        /\ SameTree(ret.out.nodes, ret.out.root, nodes, root)

(***************************************************************************)
(* C2: for every tree with a root, rebuilding the flattened tree without   *)
(* validation (the to_pkl / from_pkl path) gives a tree with the same      *)
(* identifiers, modes, selections, edges and child order.                  *)
(***************************************************************************)
C2_RoundTripUnvalidated ==
    Rebuilt(FALSE) =>
        /\ ret.out.kind = "ok"
        /\ SameTree(ret.out.nodes, ret.out.root, nodes, root)

(***************************************************************************)
(* C3: for every tree with a root, decompose_menu yields exactly the       *)
(* pre-order sequence of the nodes' records: one 4-field record per node   *)
(* and nothing else, root first with a null parent, a node before its      *)
(* descendants, siblings in insertion order.                               *)
(***************************************************************************)
C3_PreorderRecords ==
    (ret.op = "decompose_menu" /\ root # NoNode) =>
        /\ ret.kind = "ok"
        /\ ret.val = Preorder(nodes, root)
        /\ ret.val[1].parent = None

(***************************************************************************)
(* C4: from_tuple with validate=True raises an integrity error exactly     *)
(* when the first record has a non-null parent or a later record's parent  *)
(* identifier is not the identifier of an earlier record (well-typed       *)
(* sequences).                                                             *)
(***************************************************************************)
WellTyped(obj) == \A k \in 1..Len(obj) : obj[k].mode \in Modes

FirstHasParent(obj) == Len(obj) >= 1 /\ obj[1].parent # None

ParentUnseen(obj) ==
    \E k \in 2..Len(obj) :
        obj[k].parent \notin {obj[j].id : j \in 1..(k - 1)}

C4_IntegrityExactly ==
    (ret.op = "from_tuple" /\ ret.validate /\ WellTyped(ret.obj)) =>
        ((ret.out.kind = "raise" /\ ret.out.val = "IntegrityError")
            <=> (FirstHasParent(ret.obj) \/ ParentUnseen(ret.obj)))

(***************************************************************************)
(* C5: decompose_menu on a shell without root raises nothing and yields    *)
(* the empty sequence.                                                     *)
(***************************************************************************)
C5_RootlessSoft ==
    (ret.op = "decompose_menu" /\ root = NoNode) =>
        (ret.kind = "ok" /\ ret.val = <<>>)

(***************************************************************************)
(* Navigation properties                                                   *)
(***************************************************************************)
\* the input matches the child: an ID or CHOICE child lists it, a PATTERN
\* child has a pattern that matches it from its start
Matches(c, input) ==
    \/ c.mode \in {"id", "choice"} /\ input \in Range(c.selection)
    \/ c.mode = "pattern" /\ \E p \in Range(c.selection) : ReMatch(p, input)

\* positions, in the child list of node n, of the children that match
MatchingAt(h, n, input) ==
    {k \in 1..Len(h[n].children) : Matches(h[h[n].children[k]], input)}

Least(S) == CHOOSE k \in S : \A j \in S : k <= j

FirstMatching(h, n, input) == h[n].children[Least(MatchingAt(h, n, input))]

\* positions of the children whose mode is none of ID, CHOICE, PATTERN
UnhandledAt(h, n) ==
    {k \in 1..Len(h[n].children) : h[h[n].children[k]].mode \notin Modes}

\* what a select that advances has to do: move to the first matching child,
\* push one history entry, return the joined command path
AdvancesToFirst ==
    /\ ret'.kind = "ok"
    /\ pointer'.node = FirstMatching(nodes, pointer.node, ret'.arg)
    /\ pointer'.traceid = Append(pointer.traceid, pointer.node)
    /\ pointer'.tracecmd = Append(pointer.tracecmd, ret'.arg)
    /\ pointer'.shell = pointer.shell
    /\ ret'.val = Join(pointer'.tracecmd)

\* what a select that does not advance has to do
RejectsQuietly ==
    /\ ret'.kind = "ok"
    /\ ret'.val = None
    /\ pointer' = pointer

\* a call of select, seen as a step
SelectStep == pointer # NoPointer /\ ret'.op = "select"

(***************************************************************************)
(* C6 as stated: when some child of the current node matches the input,    *)
(* select moves to the first such child in stored order, pushes one        *)
(* (previous current, input) entry and returns the history's tokens joined *)
(* by '|'.                                                                 *)
(***************************************************************************)
C6_SelectFirstMatch ==
    [][(SelectStep /\ MatchingAt(nodes, pointer.node, ret'.arg) # {})
          => AdvancesToFirst]_vars

(***************************************************************************)
(* C6 amended: the same, provided no child stored before the first         *)
(* matching child has a mode outside ID, CHOICE, PATTERN.                  *)
(***************************************************************************)
C6_SelectFirstMatchHandled ==
    [][(/\ SelectStep
        /\ MatchingAt(nodes, pointer.node, ret'.arg) # {}
        /\ \A k \in UnhandledAt(nodes, pointer.node) :
              k > Least(MatchingAt(nodes, pointer.node, ret'.arg)))
          => AdvancesToFirst]_vars

\* select advanced from a node with two matching children, to the first
C6_Witness ==
    /\ Advanced(ret)
    /\ Cardinality(MatchingAt(nodes, ret.before.node, ret.arg)) >= 2
    /\ pointer.node = FirstMatching(nodes, ret.before.node, ret.arg)
    /\ ret.val = ret.arg

(***************************************************************************)
(* C7 as stated: when no child of the current node matches the input,      *)
(* select returns None, raises nothing and leaves current and both history *)
(* lists as they were.                                                     *)
(***************************************************************************)
C7_SelectNoMatch ==
    [][(SelectStep /\ MatchingAt(nodes, pointer.node, ret'.arg) = {})
          => RejectsQuietly]_vars

(***************************************************************************)
(* C7 amended: the same, provided every child of the current node has a    *)
(* mode among ID, CHOICE, PATTERN.                                         *)
(***************************************************************************)
C7_SelectNoMatchHandled ==
    [][(/\ SelectStep
        /\ MatchingAt(nodes, pointer.node, ret'.arg) = {}
        /\ UnhandledAt(nodes, pointer.node) = {})
          => RejectsQuietly]_vars

\* select was refused below the root, at a node that has a child
C7_Witness ==
    /\ ret.op = "select"
    /\ ret.kind = "ok"
    /\ ret.val = None
    /\ pointer.traceid # <<>>
    /\ nodes[pointer.node].children # <<>>

(***************************************************************************)
(* C8: a successful select followed immediately by back restores current,  *)
(* traceid and tracecmd to their values before the select.                 *)
(***************************************************************************)
C8_SelectBackRestores ==
    [][(Advanced(ret) /\ ret'.op = "back") => pointer' = ret.before]_vars

\* back undid a select that had been made below the root
C8_Witness ==
    /\ ret.op = "back"
    /\ ret.after = "select"
    /\ ret.popped
    /\ Len(pointer.traceid) = 1
    /\ Len(pointer.tracecmd) = 1

(***************************************************************************)
(* C9: back with an empty history raises nothing, leaves current at the    *)
(* root and both history lists empty.                                      *)
(***************************************************************************)
C9_BackAtOrigin ==
    [][(pointer # NoPointer /\ ret'.op = "back" /\ pointer.traceid = <<>>)
          => /\ ret'.kind = "ok"
             /\ pointer' = pointer
             /\ pointer'.node = root'
             /\ pointer'.traceid = <<>>
             /\ pointer'.tracecmd = <<>>]_vars

\* back was called at the origin of a tree that has something to select
C9_Witness ==
    /\ ret.op = "back"
    /\ ~ret.popped
    /\ pointer.node = root
    /\ nodes[root].children # <<>>

(***************************************************************************)
(* C10: after any sequence of select and back calls, reset leaves the      *)
(* pointer as a newly constructed pointer on the same tree is: current at  *)
(* the root, both history lists empty, bound to the same shell.            *)
(***************************************************************************)
C10_ResetIsFresh ==
    ret.op = "reset" =>
        /\ pointer.node = root
        /\ pointer.traceid = <<>>
        /\ pointer.tracecmd = <<>>
        /\ pointer.shell = ret.before.shell
        /\ pointer = MenuPointerInit(root)

\* reset was called two selections below the root
C10_Witness ==
    /\ ret.op = "reset"
    /\ Len(ret.before.traceid) = 2
    /\ ret.before.node # root
    /\ pointer.node = root

(***************************************************************************)
(* C11: a tree has at most one root, set once: an installed root never     *)
(* changes, and add_node with the identifier 'root' on a tree that has a   *)
(* root fails with an error and leaves root and every node unchanged.      *)
(***************************************************************************)
C11_SingleRoot ==
    [][/\ root # NoNode => root' = root
       /\ (/\ ret'.op = "add_node"
           /\ ret'.shell = "menu"
           /\ ret'.id = RootId
           /\ root # NoNode)
            => (ret'.kind = "raise" /\ nodes' = nodes /\ root' = root)]_vars

\* a second 'root' was refused on a tree that has nodes below its root
C11_Witness ==
    /\ ret.op = "add_node"
    /\ ret.shell = "menu"
    /\ ret.id = RootId
    /\ ret.kind = "raise"
    /\ ret.val = "ValueError"
    /\ root # NoNode
    /\ nodes[root].children # <<>>

(***************************************************************************)
(* C12: add_node with a non-root identifier succeeds only for a parent     *)
(* that belongs to this tree, so every node a tree has accepted is         *)
(* reachable from the tree's root by following children.                   *)
(***************************************************************************)
RECURSIVE Closure(_, _)
Closure(h, S) ==
    LET T == S \cup UNION {Range(h[n].children) : n \in S}
    IN  IF T = S THEN S ELSE Closure(h, T)

\* the nodes reachable from r; none when there is no root
Reach(h, r) == IF r = NoNode THEN {} ELSE Closure(h, {r})

C12_AcceptedReachable ==
    (ret.op = "add_node" /\ ret.shell = "menu" /\ ret.kind = "ok")
        => ret.val \in Reach(nodes, root)

(***************************************************************************)
(* C13: a construction with two or more mode inputs (truefalse set,        *)
(* choice, pattern, bounds) fails with a configuration error and makes no  *)
(* node; with at most one it succeeds and the node has exactly one mode    *)
(* out of ID, CHOICE, PATTERN: CHOICE for a choice list, PATTERN for a     *)
(* pattern, ID otherwise.                                                  *)
(***************************************************************************)
\* the mode inputs a call supplies
Supplied(kw) ==
    {k \in {"choice", "pattern", "bounds"} : k \in DOMAIN kw}
        \cup {k \in {"truefalse"} : k \in DOMAIN kw /\ kw[k] = TRUE}

DerivedMode(kw) ==
    IF "choice" \in DOMAIN kw THEN "choice"
    ELSE IF "pattern" \in DOMAIN kw THEN "pattern"
    ELSE "id"

\* mode and selection are both supplied, neither of them empty
PassThrough(kw) ==
    /\ {"mode", "selection"} \subseteq DOMAIN kw
    /\ kw.mode # ""
    /\ kw.selection # <<>>

TooManyFails ==
    (ret.op = "MenuNode" /\ Cardinality(Supplied(ret.kw)) >= 2)
        => (ret.kind = "raise" /\ ret.val = "ValueError")

C13_OneMode ==
    /\ TooManyFails
    /\ (ret.op = "MenuNode" /\ Cardinality(Supplied(ret.kw)) <= 1)
         => /\ ret.kind = "ok"
            /\ ret.val.mode \in Modes
            /\ ret.val.mode = DerivedMode(ret.kw)

\* C13 as it holds: the mode is derived from the mode inputs unless the
\* call is a pass-through
C13_OneModeDerived ==
    /\ TooManyFails
    /\ (ret.op = "MenuNode" /\ Cardinality(Supplied(ret.kw)) <= 1)
         => /\ ret.kind = "ok"
            /\ ~PassThrough(ret.kw)
                 => /\ ret.val.mode \in Modes
                    /\ ret.val.mode = DerivedMode(ret.kw)

\* a pattern given next to truefalse=False makes a PATTERN node
C13_Witness ==
    /\ ret.op = "MenuNode"
    /\ ret.kind = "ok"
    /\ Supplied(ret.kw) = {"pattern"}
    /\ "truefalse" \in DOMAIN ret.kw
    /\ ~PassThrough(ret.kw)
    /\ ret.val.mode = "pattern"

(***************************************************************************)
(* C20: a node constructed with both mode and selection supplied has       *)
(* exactly the supplied mode and selection, for every supplied pair, an    *)
(* empty selection list included; no mode is derived again.                *)
(***************************************************************************)
C20_PassThroughVerbatim ==
    (/\ ret.op = "MenuNode"
     /\ ret.kind = "ok"
     /\ {"mode", "selection"} \subseteq DOMAIN ret.kw)
        => /\ ret.val.mode = ret.kw.mode
           /\ ret.val.selection = ret.kw.selection

(***************************************************************************)
(* C14: roll returns a mapping whose keys are exactly the modes present    *)
(* among the children of current; its ID entry has one token per ID child  *)
(* in child order, its CHOICE entry is the concatenation in child order of *)
(* the selections of the CHOICE children; current and both history lists   *)
(* stay as they are.                                                       *)
(***************************************************************************)
\* what the children ch with the given mode offer, in child order: the one
\* token of an ID child, the whole selection of any other child
RECURSIVE TokensOf(_, _, _)
TokensOf(h, ch, mode) ==
    IF ch = <<>>
    THEN <<>>
    ELSE LET c == h[Head(ch)]
             own == IF c.mode # mode THEN <<>>
                    ELSE IF mode = "id" THEN <<c.selection[1]>>
                    ELSE c.selection
         IN  own \o TokensOf(h, Tail(ch), mode)

ChildModes == {nodes[c].mode : c \in Range(nodes[pointer.node].children)}

\* the value of the roll step is the mapping the claim describes
RollReturns ==
    /\ ret'.kind = "ok"
    /\ DOMAIN ret'.val = ChildModes
    /\ \A mode \in ChildModes \cap {"id", "choice"} :
          ret'.val[mode] = TokensOf(nodes, nodes[pointer.node].children, mode)

C14_Roll ==
    [][ret'.op = "roll" => (RollReturns /\ pointer' = pointer)]_vars

\* C14 as it holds: the mapping is returned when every child is an ID or a
\* CHOICE child, any other child makes roll raise
C14_RollIdChoice ==
    [][ret'.op = "roll"
         => /\ IF ChildModes \subseteq {"id", "choice"}
               THEN RollReturns
               ELSE ret'.kind = "raise" /\ ret'.val = "NotImplementedError"
            /\ pointer' = pointer]_vars

\* roll below the root listed an ID child and a CHOICE child
C14_Witness ==
    /\ ret.op = "roll"
    /\ ret.kind = "ok"
    /\ DOMAIN ret.val = {"id", "choice"}
    /\ Len(ret.val["choice"]) = 2

(***************************************************************************)
(* C15: the history length equals the number of successful select calls    *)
(* minus the number of back calls made since construction or the last      *)
(* reset, every back call counted, also one made with an empty history.    *)
(* The count is stated step by step: the length is 0 after construction    *)
(* and after reset, and every other call changes the length by what it     *)
(* adds to the count.                                                      *)
(***************************************************************************)
\* what the step adds to successful selects minus back calls; everyBack
\* tells whether a back call made with an empty history is counted
CountChange(everyBack) ==
    IF Advanced(ret') THEN 1
    ELSE IF ret'.op = "back" /\ (everyBack \/ Len(pointer.traceid) > 0) THEN 0 - 1
    ELSE 0

HistoryCounts(everyBack) ==
    pointer' # NoPointer
        => IF ret'.op \in {"MenuPointer", "reset"}
           THEN Len(pointer'.traceid) = 0
           ELSE Len(pointer'.traceid) =
                    Len(pointer.traceid) + CountChange(everyBack)

C15_HistoryCount == [][HistoryCounts(TRUE)]_vars

\* C15 as it holds: only the back calls made with a non-empty history count
C15_HistoryCountPopping == [][HistoryCounts(FALSE)]_vars

\* two selects and one back leave a history of length one
C15_Witness ==
    /\ ret.op = "back"
    /\ ret.popped
    /\ pointer.node # root
    /\ Len(pointer.traceid) = 1

(***************************************************************************)
(* C16: for a pointer constructed on a tree with a root, after any         *)
(* interleaving of select, back, reset, roll and add_node on that tree,    *)
(* the node history and the command history have equal length and the      *)
(* history nodes followed by current form a path from the root: the first  *)
(* history node is the root, each next node is a child of the one before,  *)
(* current is a child of the last history node, and current is the root    *)
(* when the history is empty.                                              *)
(***************************************************************************)
\* the sequence walk starts at the root and every step goes to a child
PathFromRoot(h, r, walk) ==
    /\ walk[1] = r
    /\ \A k \in 1..(Len(walk) - 1) : walk[k + 1] \in Range(h[walk[k]].children)

C16_HistoryIsPath ==
    pointer # NoPointer
        => /\ Len(pointer.traceid) = Len(pointer.tracecmd)
           /\ PathFromRoot(nodes, root, Append(pointer.traceid, pointer.node))

\* the pointer stands two levels below the root
C16_Witness ==
    /\ Advanced(ret)
    /\ Len(pointer.traceid) = 2
    /\ pointer.traceid[1] = root
    /\ pointer.node \notin {root, pointer.traceid[2]}

(***************************************************************************)
(* C17: from any reachable pointer state with history length n, back       *)
(* called repeatedly with nothing in between reaches current = root with   *)
(* an empty history after exactly n calls, and every further back call     *)
(* leaves that state unchanged.                                            *)
(***************************************************************************)
\* the pointer after k back calls in a row
RECURSIVE BackN(_, _)
BackN(p, k) == IF k = 0 THEN p ELSE BackN(BackPointer(p), k - 1)

C17_BackReachesRoot ==
    pointer # NoPointer
        => LET n == Len(pointer.traceid)
               atRoot == BackN(pointer, n)
           IN  /\ atRoot.node = root
               /\ atRoot.traceid = <<>>
               /\ atRoot.tracecmd = <<>>
               /\ \A k \in 0..(n - 1) : BackN(pointer, k).traceid # <<>>
               /\ \A k \in 1..2 : BackN(pointer, n + k) = atRoot

\* two back calls in a row brought the pointer from two levels down to the
\* root
C17_Witness ==
    /\ ret.op = "back"
    /\ ret.after = "back"
    /\ ret.popped
    /\ pointer.traceid = <<>>
    /\ pointer.node = root

(***************************************************************************)
(* C18: select raises the fatal internal error exactly when, scanning the  *)
(* children of current in stored order, it reaches a child whose mode is   *)
(* outside ID, CHOICE, PATTERN before it reaches a matching child; when it *)
(* raises, current and both history lists are unchanged.                   *)
(***************************************************************************)
\* some child of an unhandled mode is stored before every matching child
UnhandledFirst(h, n, input) ==
    \E k \in UnhandledAt(h, n) : \A j \in MatchingAt(h, n, input) : k < j

C18_SelectRaises ==
    [][SelectStep
         => /\ ret'.kind = "raise"
                  <=> UnhandledFirst(nodes, pointer.node, ret'.arg)
            /\ ret'.kind = "raise"
                  => /\ ret'.val = "NotImplementedError"
                     /\ pointer' = pointer]_vars

\* select raised although a child stored later matches the input
C18_Witness ==
    /\ ret.op = "select"
    /\ ret.kind = "raise"
    /\ MatchingAt(nodes, pointer.node, ret.arg) # {}
    /\ pointer = ret.before

(***************************************************************************)
(* C19: from_tuple with validate = True builds nothing from a malformed    *)
(* sequence: when some record has an identifier that is no string, a mode  *)
(* outside ID, CHOICE, PATTERN or a selection that is no list, it raises   *)
(* before any node is created; so every tree it returns has only nodes of  *)
(* mode ID, CHOICE or PATTERN.                                             *)
(***************************************************************************)
MalformedAt(obj) ==
    {k \in 1..Len(obj) : \/ obj[k].id = None
                         \/ obj[k].mode \notin Modes
                         \/ obj[k].selection = NoneSelection}

C19_ValidatedBuildsNothing ==
    (ret.op = "from_tuple" /\ ret.validate)
        => /\ MalformedAt(ret.obj) # {}
                => (ret.out.kind = "raise" /\ ret.out.made = 0)
           /\ ret.out.kind = "ok"
                => \A n \in 1..Len(ret.out.nodes) :
                      ret.out.nodes[n].mode \in Modes

\* a well-formed root record followed by a record of a foreign mode that
\* passes the sequence test was refused for its mode
C19_Witness ==
    /\ ret.op = "from_tuple"
    /\ ret.validate
    /\ MalformedAt(ret.obj) = {2}
    /\ ret.obj[2].id = ret.obj[1].id
    /\ ret.out.kind = "raise"
    /\ ret.out.val = "CompositeError"
    /\ ret.out.made = 0

(***************************************************************************)
(* C21: in every tree reached through add_node, with any mode arguments    *)
(* and the pass-through pair among them, or through from_tuple, every node *)
(* of mode ID has as selection the one-element sequence holding the node's *)
(* own identifier.                                                         *)
(***************************************************************************)
IdSelectsItself(h) ==
    \A n \in 1..Len(h) : h[n].mode = "id" => h[n].selection = <<h[n].id>>

C21_IdSelectsItself ==
    /\ IdSelectsItself(nodes)
    /\ (ret.op = "from_tuple" /\ ret.out.kind = "ok")
          => IdSelectsItself(ret.out.nodes)

(***************************************************************************)
(* C22: for every record sequence that passes the checks of validate =     *)
(* True, from_tuple with validate = True and with validate = False have    *)
(* the same outcome: both return structurally equal trees, or both fail    *)
(* with the same error.                                                    *)
(***************************************************************************)
SameOutcome(a, b) ==
    /\ a.kind = b.kind
    /\ a.kind = "raise" => a.val = b.val
    /\ a.kind = "ok" => SameTree(a.nodes, a.root, b.nodes, b.root)

C22_ValidateOnlyRejects ==
    (ret.op = "from_tuple_twice" /\ Validate(ret.obj, 1, {}) = "ok")
        => SameOutcome(ret.validated, ret.plain)

====
